---- MODULE Spec2Model ----
(***************************************************************************)
(* cmdgroup: a supervisor that runs several instances of one command.      *)
(* The model covers Group.Run, Instance.Run, checkErr and the part of      *)
(* os/exec.Cmd (Start, Wait, the context watcher with Cancel and           *)
(* WaitDelay) that Instance.newCmd configures.                             *)
(*                                                                         *)
(* Time is counted in seconds; Tick advances it to the next timer expiry.  *)
(***************************************************************************)
EXTENDS Integers, Sequences, FiniteSets

\* Number of instances of the group (len(g.Instances)).
NumInstances == 2

\* The start counter of an instance saturates at this value.
MaxStarts == 2

\* const cmdRestartDelay = time.Second
cmdRestartDelay == 1

\* const cmdWaitDelay = 10 * time.Second
cmdWaitDelay == 10

Inst == 0 .. (NumInstances - 1)

\* Exit codes a child may exit with on its own.
ExitCodes == {0, 1}

\* Signals that may terminate a child.
Signals == {"SIGTERM", "SIGKILL"}

(***************************************************************************)
(* Error values.  Every error is a record of the same shape:               *)
(*   kind  "nil"      the nil error                                        *)
(*         "ctx"      context.Canceled / context.DeadlineExceeded (wraps)  *)
(*         "exit"     *exec.ExitError, exited with a non-zero code         *)
(*         "signaled" *exec.ExitError, terminated by signal sig            *)
(*         "os"       an operating-system error of os.StartProcess         *)
(*         "start"    fmt.Errorf("start command: %w", e), e named by wraps *)
(***************************************************************************)
NilErr == [kind |-> "nil", code |-> 0, sig |-> "", wraps |-> ""]

CtxError(which) == [kind |-> "ctx", code |-> 0, sig |-> "", wraps |-> which]

ExitError(c) == [kind |-> "exit", code |-> c, sig |-> "", wraps |-> ""]

SignalError(s) == [kind |-> "signaled", code |-> 0, sig |-> s, wraps |-> ""]

OsError(w) == [kind |-> "os", code |-> 0, sig |-> "", wraps |-> w]

StartError(e) == [kind |-> "start", code |-> 0, sig |-> "", wraps |-> e.wraps]

\* errors.Is(err, context.Canceled): the error is, or wraps, context.Canceled.
IsCanceled(err) == err.kind \in {"ctx", "start"} /\ err.wraps = "Canceled"

\* checkErr without the errors.Is(err, context.Canceled) test.
checkErrNoCanceled(err) ==
    IF err = NilErr THEN NilErr
    ELSE IF err.kind \notin {"exit", "signaled"} THEN err
    ELSE IF err.kind # "signaled" \/ err.sig # "SIGTERM" THEN err
    ELSE NilErr

\* checkErr that takes an exit caused by any signal for an expected one.
checkErrAnySignal(err) ==
    IF err = NilErr THEN NilErr
    ELSE IF IsCanceled(err) THEN NilErr
    ELSE IF err.kind \notin {"exit", "signaled"} THEN err
    ELSE IF err.kind # "signaled" THEN err
    ELSE NilErr

\* checkErr without the test for SIGTERM: every process-exit error is
\* returned.
checkErrNoSignal(err) ==
    IF err = NilErr THEN NilErr
    ELSE IF IsCanceled(err) THEN NilErr
    ELSE err

\* checkErr filters out expected termination errors (context cancel, SIGTERM).
checkErr(err) ==
    IF err = NilErr THEN NilErr
    ELSE IF IsCanceled(err) THEN NilErr
    ELSE IF err.kind \notin {"exit", "signaled"} THEN err
    ELSE IF err.kind # "signaled" \/ err.sig # "SIGTERM" THEN err
    ELSE NilErr

\* errors.Join(errs...): the non-nil errors in slot order; the empty sequence
\* stands for the nil result Join returns when every slot is nil.
RECURSIVE JoinFrom(_, _)
JoinFrom(e, k) ==
    IF k >= NumInstances THEN <<>>
    ELSE IF e[k] = NilErr THEN JoinFrom(e, k + 1)
    ELSE <<e[k]>> \o JoinFrom(e, k + 1)

\* Join that keeps only the first non-nil error.
JoinFirstOnly(e) ==
    IF JoinFrom(e, 0) = <<>> THEN <<>> ELSE <<JoinFrom(e, 0)[1]>>

\* Join that lists the non-nil errors from the last slot to the first.
JoinReversed(e) ==
    LET s == JoinFrom(e, 0)
    IN [k \in 1 .. Len(s) |-> s[Len(s) + 1 - k]]

Join(e) == JoinFrom(e, 0)

VARIABLES
    Watch,      \* Instance.Watch of every instance
    parent,     \* the caller's context: "live", "Canceled", "DeadlineExceeded"
    ctxErr,     \* ctx.Err() of the group's derived context ("" while not done)
    ctxCause,   \* context.Cause(ctx) of the derived context
    gpc,        \* Group.Run: "spawn", "wait", "returned"
    spawned,    \* number of workers started by the wg.Go loop
    ret,        \* value returned by Group.Run (Join of errs)
    pc,         \* worker position: "idle", "start", "wait", "select", "done"
    child,      \* the instance's child process: "none", "running", "exited"
    status,     \* exit status of an exited child (an error record, NilErr
                \* for 0)
    termSent,   \* cmd.Cancel has sent SIGTERM for the instance's command
    termTo,     \* whom the SIGTERM of cmd.Cancel was sent to: "", "group"
    grace,      \* seconds since SIGTERM was sent (WaitDelay timer; 0 when
                \* the child has ended)
    forced,     \* the child was killed by the WaitDelay expiry
    delay,      \* seconds since the restart wait began (time.After timer;
                \* 0 outside it)
    starts,     \* children started by this instance (saturating at MaxStarts)
    err,        \* the variable err of Instance.Run while it is live (from
                \* cmd.Start or cmd.Wait up to the return that reads it)
    site,       \* where Instance.Run returned: "", "start", "wait", "ctx"
    result,     \* value returned by Instance.Run
    errs,       \* the per-index result slots of Group.Run
    access      \* the accesses to every result slot so far: the number of
                \* writes (counted up to 2), the workers that wrote it, the
                \* workers that read it, and whether Group.Run has read it

VARIABLE
    cli         \* run, the CLI entry point: its argument list (args), its
                \* position (pc: "none", "parse", "new", "run", "returned")
                \* and the exit code it returned (code, -1 before the return)

vars == <<Watch, parent, ctxErr, ctxCause, gpc, spawned, ret, pc,
          child, status, termSent, termTo, grace, forced, delay, starts,
          err, site, result, errs, access, cli>>

VARIABLES
    name,       \* New: the command name passed by the caller
    opts,       \* New: the Options after the caller's options were applied
    npc,        \* New: "new", "lookpath", "build", "watch", "apply", "returned"
    path,       \* New: the result of exec.LookPath (<<>> while not resolved)
    segs,       \* New: the variable args, the result of parseArgs(opts.args)
    instances,  \* New: the variable instances (Go index j is position j + 1)
    indexes,    \* applyWatch: the indexes the range loop has not visited yet
    group,      \* the *Group returned by New
    newErr      \* the error returned by New ("" for nil)

build == <<name, opts, npc, path, segs, instances, indexes, group, newErr>>

\* What Group.Run and Instance.Run have no assignment to.
config == <<Watch, build, cli>>

ctxDone == ctxErr # ""

\* Options{args: nil, watch: "none", logger: slog.New(slog.DiscardHandler)}
DefaultOptions ==
    [args |-> <<>>, watch |-> <<"n", "o", "n", "e">>, logger |-> "discard"]

\* The *Group of a New that failed (nil).
NilGroup == [ok |-> FALSE, Instances |-> <<>>]

\* New has returned a Group of NumInstances instances whose Watch flags are
\* the ones Group.Run sees; its local variables are gone.
Constructed ==
    /\ name = "echo"
    /\ opts = DefaultOptions
    /\ npc = "returned"
    /\ path = <<"/bin", "echo">>
    /\ segs = <<>>
    /\ instances = [j \in 1 .. NumInstances |->
                      [Name |-> path, Args |-> <<>>, Watch |-> Watch[j - 1],
                       Logger |-> "discard"]]
    /\ indexes = <<>>
    /\ group = [ok |-> TRUE, Instances |-> instances]
    /\ newErr = ""

\* Group.Run has been called and has not started a worker.
RunInit ==
    /\ Watch \in [Inst -> BOOLEAN]
    /\ parent = "live"
    /\ ctxErr = ""
    /\ ctxCause = NilErr
    /\ gpc = "spawn"
    /\ spawned = 0
    /\ ret = <<>>
    /\ pc = [i \in Inst |-> "idle"]
    /\ child = [i \in Inst |-> "none"]
    /\ status = [i \in Inst |-> NilErr]
    /\ termSent = [i \in Inst |-> FALSE]
    /\ termTo = [i \in Inst |-> ""]
    /\ grace = [i \in Inst |-> 0]
    /\ forced = [i \in Inst |-> FALSE]
    /\ delay = [i \in Inst |-> 0]
    /\ starts = [i \in Inst |-> 0]
    /\ err = [i \in Inst |-> NilErr]
    /\ site = [i \in Inst |-> ""]
    /\ result = [i \in Inst |-> NilErr]
    /\ errs = [i \in Inst |-> NilErr]
    /\ access = [i \in Inst |-> [writes |-> 0, writers |-> {}, readers |-> {},
                                 joined |-> FALSE]]

\* Group.Run, or New, is called by a program other than the CLI (a test of
\* the package): run is not executing.
Library == cli = [args |-> <<>>, pc |-> "none", code |-> -1]

Init == RunInit /\ Constructed /\ Library

(***************************************************************************)
(* The group's derived context (context.WithCancelCause).                  *)
(***************************************************************************)

\* cancel(cause): the first cancellation sets Err and Cause, later ones are
\* no-ops; a nil cause is recorded as context.Canceled.
CancelCtx(cause) ==
    IF ctxDone
    THEN UNCHANGED <<ctxErr, ctxCause>>
    ELSE /\ ctxErr' = "Canceled"
         /\ ctxCause' = IF cause = NilErr THEN CtxError("Canceled") ELSE cause

\* The caller's context becomes done (cancelled, or its deadline passes) and
\* the derived context inherits its error.  On a derived context that is done
\* already the event changes nothing, and it is left out.
ParentDone(e) ==
    /\ parent = "live"
    /\ gpc # "returned"
    /\ ~ctxDone
    /\ parent' = e
    /\ ctxErr' = e
    /\ ctxCause' = CtxError(e)
    /\ UNCHANGED <<config, gpc, spawned, ret, pc, child, status, termSent,
                   termTo, grace, forced, delay, starts, err, site, result,
                   errs, access>>

(***************************************************************************)
(* Group.Run                                                               *)
(***************************************************************************)

\* Group.Run that starts the worker of an instance when the worker of the
\* instance before it has finished.
GroupSpawnInTurn ==
    /\ gpc = "spawn"
    /\ spawned < NumInstances
    /\ spawned > 0 => pc[spawned - 1] = "done"
    /\ pc' = [pc EXCEPT ![spawned] = "start"]
    /\ spawned' = spawned + 1
    /\ gpc' = IF spawned + 1 = NumInstances THEN "wait" ELSE "spawn"
    /\ UNCHANGED <<config, parent, ctxErr, ctxCause, ret, child, status,
                   termSent, termTo, grace, forced, delay, starts, err, site,
                   result, errs, access>>

\* for idx, instance := range g.Instances { wg.Go(...) }; then wg.Wait()
GroupSpawn ==
    /\ gpc = "spawn"
    /\ spawned < NumInstances
    /\ pc' = [pc EXCEPT ![spawned] = "start"]
    /\ spawned' = spawned + 1
    /\ gpc' = IF spawned + 1 = NumInstances THEN "wait" ELSE "spawn"
    /\ UNCHANGED <<config, parent, ctxErr, ctxCause, ret, child, status,
                   termSent, termTo, grace, forced, delay, starts, err, site,
                   result, errs, access>>

\* Group.Run that returns as soon as one worker has finished.
GroupReturnEarly ==
    /\ gpc = "wait"
    /\ \E i \in Inst : pc[i] = "done"
    /\ ret' = Join(errs)
    /\ access' = [i \in Inst |-> [access[i] EXCEPT !.joined = TRUE]]
    /\ gpc' = "returned"
    /\ CancelCtx(NilErr)
    /\ UNCHANGED <<config, parent, spawned, pc, child, status, termSent,
                   termTo, grace, forced, delay, starts, err, site, result,
                   errs>>

\* wg.Wait() returns; return errors.Join(errs...), which reads every slot;
\* deferred cancel(nil)
GroupReturn ==
    /\ gpc = "wait"
    /\ \A i \in Inst : pc[i] = "done"
    /\ ret' = Join(errs)
    /\ access' = [i \in Inst |-> [access[i] EXCEPT !.joined = TRUE]]
    /\ gpc' = "returned"
    /\ CancelCtx(NilErr)
    /\ UNCHANGED <<config, parent, spawned, pc, child, status, termSent,
                   termTo, grace, forced, delay, starts, err, site, result,
                   errs>>

(***************************************************************************)
(* Instance.Run and the worker of Group.Run that calls it                  *)
(***************************************************************************)

\* The accesses a to a result slot after worker w has written it and read it
\* (errs[idx] = ..., errs[idx] != nil, cancel(errs[idx])).
ByWorker(a, w) ==
    [a EXCEPT !.writes = IF @ < 2 THEN @ + 1 ELSE @,
              !.writers = @ \cup {w},
              !.readers = @ \cup {w}]

\* The worker with cancel(nil) in place of cancel(errs[idx]).
FinishCancelNil(i, e, where) ==
    /\ result' = [result EXCEPT ![i] = e]
    /\ site' = [site EXCEPT ![i] = where]
    /\ errs' = [errs EXCEPT ![i] = checkErr(e)]
    /\ access' = [access EXCEPT ![i] = ByWorker(@, i)]
    /\ IF checkErr(e) # NilErr /\ ~Watch[i]
       THEN CancelCtx(NilErr)
       ELSE UNCHANGED <<ctxErr, ctxCause>>
    /\ pc' = [pc EXCEPT ![i] = "done"]

\* The worker that never cancels the group.
FinishNoCancel(i, e, where) ==
    /\ result' = [result EXCEPT ![i] = e]
    /\ site' = [site EXCEPT ![i] = where]
    /\ errs' = [errs EXCEPT ![i] = checkErr(e)]
    /\ access' = [access EXCEPT ![i] = ByWorker(@, i)]
    /\ UNCHANGED <<ctxErr, ctxCause>>
    /\ pc' = [pc EXCEPT ![i] = "done"]

\* The worker without the !instance.Watch test.
FinishCancelAlways(i, e, where) ==
    /\ result' = [result EXCEPT ![i] = e]
    /\ site' = [site EXCEPT ![i] = where]
    /\ errs' = [errs EXCEPT ![i] = checkErr(e)]
    /\ access' = [access EXCEPT ![i] = ByWorker(@, i)]
    /\ IF checkErr(e) # NilErr
       THEN CancelCtx(checkErr(e))
       ELSE UNCHANGED <<ctxErr, ctxCause>>
    /\ pc' = [pc EXCEPT ![i] = "done"]

\* The worker that stores its result in the first slot not taken, as an
\* append to a shared slice would.
FinishAppend(i, e, where) ==
    LET k == Cardinality({j \in Inst : pc[j] = "done"})
    IN /\ result' = [result EXCEPT ![i] = e]
       /\ site' = [site EXCEPT ![i] = where]
       /\ errs' = [errs EXCEPT ![k] = checkErr(e)]
       /\ access' = [access EXCEPT ![k] = ByWorker(@, i)]
       /\ IF checkErr(e) # NilErr /\ ~Watch[i]
          THEN CancelCtx(checkErr(e))
          ELSE UNCHANGED <<ctxErr, ctxCause>>
       /\ pc' = [pc EXCEPT ![i] = "done"]

\* Instance.Run returns e from the given place and the worker finishes:
\*   errs[idx] = checkErr(instance.Run(ctx))
\*   if errs[idx] != nil && !instance.Watch { cancel(errs[idx]) }
\* The return and the write of the worker's own slot are local to the worker;
\* they are one step with the cancel.
Finish(i, e, where) ==
    /\ result' = [result EXCEPT ![i] = e]
    /\ site' = [site EXCEPT ![i] = where]
    /\ errs' = [errs EXCEPT ![i] = checkErr(e)]
    /\ access' = [access EXCEPT ![i] = ByWorker(@, i)]
    /\ IF checkErr(e) # NilErr /\ ~Watch[i]
       THEN CancelCtx(checkErr(e))
       ELSE UNCHANGED <<ctxErr, ctxCause>>
    /\ pc' = [pc EXCEPT ![i] = "done"]

\* Instance.Run that retries a failed start of a watched instance after the
\* restart delay.
StartRetryWatched(i) ==
    /\ pc[i] = "start"
    /\ \E launched \in BOOLEAN :
          IF ctxDone \/ ~launched
          THEN /\ IF Watch[i]
                  THEN /\ pc' = [pc EXCEPT ![i] = "select"]
                       /\ UNCHANGED <<result, site, err, errs, access, ctxErr,
                                      ctxCause>>
                  ELSE /\ err' = [err EXCEPT ![i] =
                                   IF ctxDone THEN CtxError(ctxErr)
                                   ELSE OsError("ENOENT")]
                       /\ Finish(i, StartError(err'[i]), "start")
               /\ UNCHANGED <<child, status, termSent, termTo, grace, forced,
                              starts>>
          ELSE /\ child' = [child EXCEPT ![i] = "running"]
               /\ status' = [status EXCEPT ![i] = NilErr]
               /\ termSent' = [termSent EXCEPT ![i] = FALSE]
               /\ termTo' = [termTo EXCEPT ![i] = ""]
               /\ grace' = [grace EXCEPT ![i] = 0]
               /\ forced' = [forced EXCEPT ![i] = FALSE]
               /\ starts' = [starts EXCEPT ![i] =
                     IF starts[i] < MaxStarts THEN starts[i] + 1 ELSE MaxStarts]
               /\ err' = [err EXCEPT ![i] = NilErr]
               /\ pc' = [pc EXCEPT ![i] = "wait"]
               /\ UNCHANGED <<result, site, errs, access, ctxErr, ctxCause>>
    /\ UNCHANGED <<config, parent, gpc, spawned, ret, delay>>

\* Instance.Run with a command that is not bound to the context
\* (exec.Command): the start does not fail on a done context.
StartNoContext(i) ==
    /\ pc[i] = "start"
    /\ \E launched \in BOOLEAN :
          IF ~launched
          THEN /\ err' = [err EXCEPT ![i] = OsError("ENOENT")]
               /\ Finish(i, StartError(err'[i]), "start")
               /\ UNCHANGED <<child, status, termSent, termTo, grace, forced,
                              starts>>
          ELSE /\ child' = [child EXCEPT ![i] = "running"]
               /\ status' = [status EXCEPT ![i] = NilErr]
               /\ termSent' = [termSent EXCEPT ![i] = FALSE]
               /\ termTo' = [termTo EXCEPT ![i] = ""]
               /\ grace' = [grace EXCEPT ![i] = 0]
               /\ forced' = [forced EXCEPT ![i] = FALSE]
               /\ starts' = [starts EXCEPT ![i] =
                     IF starts[i] < MaxStarts THEN starts[i] + 1 ELSE MaxStarts]
               /\ err' = [err EXCEPT ![i] = NilErr]
               /\ pc' = [pc EXCEPT ![i] = "wait"]
               /\ UNCHANGED <<result, site, errs, access, ctxErr, ctxCause>>
    /\ UNCHANGED <<config, parent, gpc, spawned, ret, delay>>

\* cmd := i.newCmd(ctx); cmd.Start(): fails on a done context and when the
\* executable cannot be launched, otherwise the child runs.
Start(i) ==
    /\ pc[i] = "start"
    /\ \E launched \in BOOLEAN :
          IF ctxDone \/ ~launched
          THEN /\ err' = [err EXCEPT ![i] =
                           IF ctxDone THEN CtxError(ctxErr)
                           ELSE OsError("ENOENT")]
               /\ Finish(i, StartError(err'[i]), "start")
               /\ UNCHANGED <<child, status, termSent, termTo, grace, forced,
                              starts>>
          ELSE /\ child' = [child EXCEPT ![i] = "running"]
               /\ status' = [status EXCEPT ![i] = NilErr]
               /\ termSent' = [termSent EXCEPT ![i] = FALSE]
               /\ termTo' = [termTo EXCEPT ![i] = ""]
               /\ grace' = [grace EXCEPT ![i] = 0]
               /\ forced' = [forced EXCEPT ![i] = FALSE]
               /\ starts' = [starts EXCEPT ![i] =
                     IF starts[i] < MaxStarts THEN starts[i] + 1 ELSE MaxStarts]
               /\ err' = [err EXCEPT ![i] = NilErr]
               /\ pc' = [pc EXCEPT ![i] = "wait"]
               /\ UNCHANGED <<result, site, errs, access, ctxErr, ctxCause>>
    /\ UNCHANGED <<config, parent, gpc, spawned, ret, delay>>

\* cmd.Wait that prefers the error of the context watcher to the exit error
\* of the child.
WaitResultCtxFirst(i) ==
    IF termSent[i] THEN CtxError(ctxErr)
    ELSE IF status[i] # NilErr THEN status[i]
    ELSE NilErr

\* The result of cmd.Wait for an exited child: the exit error when the child
\* did not succeed, else the context's error when Cancel had signalled the
\* child, else nil.
WaitResult(i) ==
    IF status[i] # NilErr THEN status[i]
    ELSE IF termSent[i] THEN CtxError(ctxErr)
    ELSE NilErr

\* Instance.Run without the "if !i.Watch { return err }" exit: every instance
\* goes on to the restart wait.
WaitAlwaysRestart(i) ==
    /\ pc[i] = "wait"
    /\ child[i] = "exited"
    /\ child' = [child EXCEPT ![i] = "none"]
    /\ status' = [status EXCEPT ![i] = NilErr]
    /\ termSent' = [termSent EXCEPT ![i] = FALSE]
    /\ termTo' = [termTo EXCEPT ![i] = ""]
    /\ grace' = [grace EXCEPT ![i] = 0]
    /\ pc' = [pc EXCEPT ![i] = "select"]
    /\ delay' = [delay EXCEPT ![i] = 0]
    /\ UNCHANGED <<config, parent, ctxErr, ctxCause, gpc, spawned, ret,
                   forced, starts, errs, access, result, site, err>>

\* Instance.Run that does not wait for the child to exit: cmd.Wait returns
\* while the child still runs, and the child is left as it is.
WaitNoExit(i) ==
    /\ pc[i] = "wait"
    /\ child[i] # "none"
    /\ IF ~Watch[i]
       THEN /\ err' = [err EXCEPT ![i] = WaitResult(i)]
            /\ Finish(i, err'[i], "wait")
            /\ UNCHANGED delay
       ELSE /\ pc' = [pc EXCEPT ![i] = "select"]
            /\ delay' = [delay EXCEPT ![i] = 0]
            /\ UNCHANGED <<result, site, err, errs, access, ctxErr, ctxCause>>
    /\ UNCHANGED <<config, parent, gpc, spawned, ret, forced, starts, child,
                   status, termSent, termTo, grace>>

\* cmd.Wait() returns; if !i.Watch { return err }; otherwise enter the select.
Wait(i) ==
    /\ pc[i] = "wait"
    /\ child[i] = "exited"
    /\ child' = [child EXCEPT ![i] = "none"]
    /\ status' = [status EXCEPT ![i] = NilErr]
    /\ termSent' = [termSent EXCEPT ![i] = FALSE]
    /\ termTo' = [termTo EXCEPT ![i] = ""]
    /\ grace' = [grace EXCEPT ![i] = 0]
    /\ IF ~Watch[i]
       THEN /\ err' = [err EXCEPT ![i] = WaitResult(i)]
            /\ Finish(i, err'[i], "wait")
            /\ UNCHANGED delay
       ELSE /\ pc' = [pc EXCEPT ![i] = "select"]
            /\ delay' = [delay EXCEPT ![i] = 0]
            /\ UNCHANGED <<result, site, err, errs, access, ctxErr, ctxCause>>
    /\ UNCHANGED <<config, parent, gpc, spawned, ret, forced, starts>>

\* select { case <-ctx.Done(): return ctx.Err() ...
SelectDone(i) ==
    /\ pc[i] = "select"
    /\ ctxDone
    /\ Finish(i, CtxError(ctxErr), "ctx")
    /\ delay' = [delay EXCEPT ![i] = 0]
    /\ UNCHANGED <<config, parent, gpc, spawned, ret, child, status, termSent,
                   termTo, grace, forced, starts, err>>

\* The restart branch without its delay (time.After(0)).
SelectTimerNoDelay(i) ==
    /\ pc[i] = "select"
    /\ pc' = [pc EXCEPT ![i] = "start"]
    /\ delay' = [delay EXCEPT ![i] = 0]
    /\ UNCHANGED <<config, parent, ctxErr, ctxCause, gpc, spawned, ret, child,
                   status, termSent, termTo, grace, forced, starts, err, site,
                   result, errs, access>>

\* The restart branch that returns err in place of looping.
SelectTimerReturns(i) ==
    /\ pc[i] = "select"
    /\ delay[i] >= cmdRestartDelay
    /\ Finish(i, err[i], "wait")
    /\ delay' = [delay EXCEPT ![i] = 0]
    /\ UNCHANGED <<config, parent, gpc, spawned, ret, child, status, termSent,
                   termTo, grace, forced, starts, err>>

\* The restart branch that clears the Watch flag of the instance, so that
\* the instance restarts once.
SelectTimerClearsWatch(i) ==
    /\ pc[i] = "select"
    /\ delay[i] >= cmdRestartDelay
    /\ pc' = [pc EXCEPT ![i] = "start"]
    /\ delay' = [delay EXCEPT ![i] = 0]
    /\ Watch' = [Watch EXCEPT ![i] = FALSE]
    /\ UNCHANGED <<build, cli, parent, ctxErr, ctxCause, gpc, spawned, ret,
                   child, status, termSent, termTo, grace, forced, starts, err,
                   site, result, errs, access>>

\* ... case <-time.After(cmdRestartDelay): } and the loop starts over.
SelectTimer(i) ==
    /\ pc[i] = "select"
    /\ delay[i] >= cmdRestartDelay
    /\ pc' = [pc EXCEPT ![i] = "start"]
    /\ delay' = [delay EXCEPT ![i] = 0]
    /\ UNCHANGED <<config, parent, ctxErr, ctxCause, gpc, spawned, ret, child,
                   status, termSent, termTo, grace, forced, starts, err, site,
                   result, errs, access>>

(***************************************************************************)
(* The child process and the context watcher of exec.Cmd                   *)
(***************************************************************************)

\* The child exits on its own with code c.
ChildExit(i, c) ==
    /\ child[i] = "running"
    /\ child' = [child EXCEPT ![i] = "exited"]
    /\ status' = [status EXCEPT ![i] = IF c = 0 THEN NilErr ELSE ExitError(c)]
    /\ grace' = [grace EXCEPT ![i] = 0]
    /\ UNCHANGED <<config, parent, ctxErr, ctxCause, gpc, spawned, ret, pc,
                   termSent, termTo, forced, delay, starts, err, site, result,
                   errs, access>>

\* The child is terminated by signal s (the supervisor's SIGTERM, or a signal
\* sent by someone else).
ChildSignaled(i, s) ==
    /\ child[i] = "running"
    /\ child' = [child EXCEPT ![i] = "exited"]
    /\ status' = [status EXCEPT ![i] = SignalError(s)]
    /\ grace' = [grace EXCEPT ![i] = 0]
    /\ UNCHANGED <<config, parent, ctxErr, ctxCause, gpc, spawned, ret, pc,
                   termSent, termTo, forced, delay, starts, err, site, result,
                   errs, access>>

\* The context is done while the command has not been waited for: cmd.Cancel
\* sends SIGTERM to the child's process group and the WaitDelay timer starts.
\* Getpgid finds the group of a child that runs or has exited and is not
\* reaped.  It fails for a child that cmd.Wait has reaped already: the
\* fallback, Process.Signal on the child alone, then returns
\* os.ErrProcessDone, no signal is sent and the result of cmd.Wait is the
\* one without a request; this is the step without a change.
CtxWatch(i) ==
    /\ ctxDone
    /\ pc[i] = "wait"
    /\ ~termSent[i]
    /\ \E resolved \in IF child[i] = "running" THEN {TRUE} ELSE BOOLEAN :
          IF resolved
          THEN /\ termSent' = [termSent EXCEPT ![i] = TRUE]
               /\ termTo' = [termTo EXCEPT ![i] = "group"]
               /\ grace' = [grace EXCEPT ![i] = 0]
          ELSE UNCHANGED <<termSent, termTo, grace>>
    /\ UNCHANGED <<config, parent, ctxErr, ctxCause, gpc, spawned, ret, pc,
                   child, status, forced, delay, starts, err, site, result,
                   errs, access>>

\* The kill without the wait for cmd.WaitDelay.
KillBeforeDelay(i) ==
    /\ termSent[i]
    /\ child[i] = "running"
    /\ child' = [child EXCEPT ![i] = "exited"]
    /\ status' = [status EXCEPT ![i] = SignalError("SIGKILL")]
    /\ forced' = [forced EXCEPT ![i] = TRUE]
    /\ grace' = [grace EXCEPT ![i] = 0]
    /\ UNCHANGED <<config, parent, ctxErr, ctxCause, gpc, spawned, ret, pc,
                   termSent, termTo, delay, starts, err, site, result, errs,
                   access>>

\* The command without cmd.WaitDelay: the child is signalled and never killed.
KillNever(i) ==
    /\ termSent[i]
    /\ child[i] = "running"
    /\ FALSE
    /\ UNCHANGED <<vars, build>>

\* cmd.WaitDelay after the SIGTERM the child still runs: it is killed.
Kill(i) ==
    /\ termSent[i]
    /\ grace[i] >= cmdWaitDelay
    /\ child[i] = "running"
    /\ child' = [child EXCEPT ![i] = "exited"]
    /\ status' = [status EXCEPT ![i] = SignalError("SIGKILL")]
    /\ forced' = [forced EXCEPT ![i] = TRUE]
    /\ grace' = [grace EXCEPT ![i] = 0]
    /\ UNCHANGED <<config, parent, ctxErr, ctxCause, gpc, spawned, ret, pc,
                   termSent, termTo, delay, starts, err, site, result, errs,
                   access>>

\* The WaitDelay timer of instance i runs and has not expired.
GraceRuns(i) == termSent[i] /\ child[i] = "running" /\ grace[i] < cmdWaitDelay

\* The restart timer of instance i runs and has not expired.
DelayRuns(i) == pc[i] = "select" /\ delay[i] < cmdRestartDelay

\* The seconds left on the running timers.
Remaining ==
    {cmdWaitDelay - grace[i] : i \in {j \in Inst : GraceRuns(j)}}
        \cup {cmdRestartDelay - delay[i] : i \in {j \in Inst : DelayRuns(j)}}

\* Time passes until the first running timer expires: every running timer
\* advances by the time left on that one.  (A step between two expiries
\* happens, in the model, at the earlier or the later of them; which timers
\* have expired when it happens is what the program can observe.)
Tick ==
    /\ Remaining # {}
    /\ LET d == CHOOSE x \in Remaining : \A y \in Remaining : x <= y
       IN /\ grace' = [i \in Inst |->
                         IF GraceRuns(i) THEN grace[i] + d ELSE grace[i]]
          /\ delay' = [i \in Inst |->
                         IF DelayRuns(i) THEN delay[i] + d ELSE delay[i]]
    /\ UNCHANGED <<config, parent, ctxErr, ctxCause, gpc, spawned, ret, pc,
                   child, status, termSent, termTo, forced, starts, err, site,
                   result, errs, access>>

Worker(i) ==
    \/ Start(i)
    \/ Wait(i)
    \/ SelectDone(i)
    \/ SelectTimer(i)

Process(i) ==
    \/ \E c \in ExitCodes : ChildExit(i, c)
    \/ \E s \in Signals : ChildSignaled(i, s)
    \/ CtxWatch(i)
    \/ Kill(i)

Next ==
    \/ GroupSpawn
    \/ GroupReturn
    \/ \E e \in {"Canceled", "DeadlineExceeded"} : ParentDone(e)
    \/ \E i \in Inst : Worker(i)
    \/ \E i \in Inst : Process(i)
    \/ Tick

Spec == Init /\ [][Next]_vars

\* The Go scheduler runs every runnable goroutine, timers fire, and the kernel
\* delivers SIGKILL; a child is not obliged to exit on its own or on SIGTERM.
Fairness ==
    /\ WF_vars(GroupSpawn)
    /\ WF_vars(GroupReturn)
    /\ WF_vars(Tick)
    /\ \A i \in Inst : WF_vars(Worker(i))
    /\ \A i \in Inst : WF_vars(CtxWatch(i))
    /\ \A i \in Inst : WF_vars(Kill(i))

FairSpec == Init /\ [][Next]_vars /\ Fairness

(***************************************************************************)
(* Properties                                                              *)
(***************************************************************************)

\* Instance.Run of the unwatched instance i returns a classified failure and
\* its worker finishes.
FailsUnwatched(i) ==
    /\ pc[i] # "done"
    /\ pc'[i] = "done"
    /\ ~Watch[i]
    /\ checkErr(result'[i]) # NilErr

\* Instance.Run of instance i returns and its worker finishes.
Finishes(i) == pc[i] # "done" /\ pc'[i] = "done"

\* A new child of instance i is started in this step.
StartsChild(i) == child[i] = "none" /\ child'[i] = "running"

\* The statement of C1 as written: whenever an unwatched instance ends with a
\* classified failure, the derived context is done and its cause is that
\* failure.
C1_CauseIsThatError ==
    [][\A i \in Inst :
          FailsUnwatched(i) =>
              ctxErr' # "" /\ ctxCause' = checkErr(result'[i])]_vars

\* C1 (amended): whenever an unwatched instance ends with a classified
\* failure, the derived context is done, and that failure is its cause
\* unless the context was done already (the first cancellation keeps its
\* cause); a done context stays done; under a done context no child is
\* started any more (watched instances stop restarting), and every child
\* still running is eventually sent SIGTERM unless it ends before.
C1_UnwatchedFailureCancels ==
    /\ [][\A i \in Inst :
             FailsUnwatched(i) =>
                 /\ ctxErr' # ""
                 /\ (ctxErr = "" => ctxCause' = checkErr(result'[i]))
                 /\ (ctxErr # "" => ctxCause' = ctxCause)]_vars
    /\ [][ctxErr # "" => ctxErr' = ctxErr]_vars
    /\ [][ctxErr # "" => \A j \in Inst : ~StartsChild(j)]_vars
    /\ \A j \in Inst :
          (ctxErr # "" /\ child[j] = "running")
              ~> (termSent[j] \/ child[j] # "running")

\* An unwatched instance failed and is the cause of the cancellation, and a
\* watched sibling's running child has been sent SIGTERM.
C1_Witness ==
    \E i, j \in Inst :
        /\ i # j
        /\ ~Watch[i]
        /\ pc[i] = "done"
        /\ errs[i] # NilErr
        /\ ctxCause = errs[i]
        /\ Watch[j]
        /\ child[j] = "running"
        /\ termSent[j]

\* C2: with an unwatched instance whose child exits non-zero next to watched
\* instances, Group.Run eventually returns, its result is not nil, and at the
\* return no instance has a child; after the return no child is started.
C2_FailureStopsWatched ==
    /\ \A i \in Inst :
          (~Watch[i] /\ pc[i] = "done" /\ result[i].kind = "exit")
              ~> (gpc = "returned" /\ ret # <<>>
                    /\ \A j \in Inst : child[j] = "none")
    /\ [][gpc = "returned" => \A j \in Inst : child'[j] = "none"]_vars

\* Group.Run returned a failure after the unwatched instance 0 exited
\* non-zero and the watched instance 1, which had a child, was stopped.
C2_Witness ==
    /\ gpc = "returned"
    /\ ret # <<>>
    /\ ~Watch[0] /\ errs[0].kind = "exit"
    /\ Watch[1] /\ starts[1] >= 1 /\ site[1] = "ctx" /\ child[1] = "none"

\* C3: while Group.Run executes, the derived context becomes done only in a
\* step in which the caller's context becomes done or in which an unwatched
\* instance ends with a classified failure; the last step of a watched
\* instance, or of an instance whose classified result is nil, leaves the
\* context as it is.
C3_OnlyUnwatchedFailureCancels ==
    [][/\ (ctxErr = "" /\ ctxErr' # "" /\ gpc' # "returned") =>
             (parent' # parent \/ \E i \in Inst : FailsUnwatched(i))
       /\ \A i \in Inst :
             (Finishes(i) /\ (Watch[i] \/ checkErr(result'[i]) = NilErr)) =>
                 (ctxErr' = ctxErr /\ ctxCause' = ctxCause)]_vars

\* A watched instance ended with a failure, the context is not done and a
\* sibling's child is running.
C3_Witness ==
    \E i, j \in Inst :
        /\ Watch[i]
        /\ pc[i] = "done"
        /\ errs[i] # NilErr
        /\ ctxErr = ""
        /\ child[j] = "running"

\* C4: when Group.Run has returned, every worker has finished and no
\* instance has a child that was started and not waited for.
C4_ReturnsAfterAllWorkers ==
    gpc = "returned" =>
        \A i \in Inst : pc[i] = "done" /\ child[i] = "none"

\* Group.Run returned after an instance had restarted its child.
C4_Witness ==
    /\ gpc = "returned"
    /\ \E i \in Inst : starts[i] >= 2

\* The instances whose classified result is not nil.
Failed == {i \in Inst : checkErr(result[i]) # NilErr}

\* C5: the value returned by Group.Run is nil exactly when every instance's
\* classified result is nil; otherwise it holds the classified error of every
\* failed instance, one entry for each.
C5_AggregateHoldsEveryFailure ==
    gpc = "returned" =>
        /\ (ret = <<>>) <=> (Failed = {})
        /\ Len(ret) = Cardinality(Failed)
        /\ \A i \in Failed :
              \E k \in 1 .. Len(ret) : ret[k] = checkErr(result[i])

\* Group.Run returned with two failed instances whose errors differ.
C5_Witness ==
    /\ gpc = "returned"
    /\ Len(ret) >= 2
    /\ ret[1] # ret[2]

\* Instance.Run ended because its context was done: it returned the context's
\* error, or a start error wrapping it.
CtxErrors == {"Canceled", "DeadlineExceeded"}

EndedByCtx(i) ==
    /\ pc[i] = "done"
    /\ result[i].kind \in {"ctx", "start"}
    /\ result[i].wraps \in CtxErrors

\* The statement of C6 as written: an instance that ended because its
\* context was done, by cancellation or by the caller's deadline, contributes
\* no error.
C6_ContextEndNeverAnError ==
    \A i \in Inst : EndedByCtx(i) => errs[i] = NilErr

\* C6 (amended): an instance that ended because its context was done reports
\* the context's error; when the context was cancelled (by the Group or by
\* the caller) its slot is nil and it contributes nothing to the aggregate;
\* when the context ended by the caller's deadline the slot holds the
\* DeadlineExceeded error it returned.
C6_CancellationIsNoError ==
    \A i \in Inst :
        EndedByCtx(i) =>
            /\ result[i].wraps = ctxErr
            /\ ctxErr = "Canceled" => errs[i] = NilErr
            /\ ctxErr = "DeadlineExceeded" => errs[i] = result[i]
            /\ (gpc = "returned" /\ ctxErr = "Canceled"
                  /\ Failed \subseteq {i}) => ret = <<>>

\* Group.Run returned after a watched instance left its restart wait on a
\* cancelled context; its slot is nil.
C6_Witness ==
    \E i \in Inst :
        /\ gpc = "returned"
        /\ site[i] = "ctx"
        /\ ctxErr = "Canceled"
        /\ ctxCause # CtxError("Canceled")
        /\ errs[i] = NilErr

LaunchFailed(i) ==
    /\ pc[i] = "done"
    /\ result[i] = StartError(OsError("ENOENT"))

\* C8: Instance.Run of a watched instance has returned only if the context is
\* done, unless its child could not be started; and while the context is not
\* done every exit of its child is eventually followed by a new child
\* (unless the child cannot be started).
C8_WatchedRestartsUntilDone ==
    /\ [](\A i \in Inst :
             (Watch[i] /\ pc[i] = "done") =>
                 (ctxErr # "" \/ LaunchFailed(i)))
    /\ \A i \in Inst :
          (Watch[i] /\ child[i] = "exited")
              ~> (ctxErr # "" \/ child[i] = "running" \/ LaunchFailed(i))

\* A watched instance has started as many children as the model counts and
\* the context is not done.
C8_Witness ==
    \E i \in Inst :
        /\ Watch[i]
        /\ starts[i] = MaxStarts
        /\ child[i] = "running"
        /\ ctxErr = ""

\* C9: a failed start makes Instance.Run return in that step, watched or
\* not, with the start-command error wrapping the error of the start; no
\* restart wait is entered, no child exists, and a returned Instance.Run
\* starts nothing afterwards.
C9_StartFailureIsTerminal ==
    [][\A i \in Inst :
          /\ (pc[i] = "start" /\ pc'[i] # "start" /\ ~StartsChild(i)) =>
                 /\ pc'[i] = "done"
                 /\ site'[i] = "start"
                 /\ err'[i] # NilErr
                 /\ result'[i] = StartError(err'[i])
                 /\ result'[i].kind = "start"
                 /\ child'[i] = "none"
                 /\ delay'[i] = delay[i]
                 /\ starts'[i] = starts[i]
          /\ pc[i] = "done" =>
                 /\ pc'[i] = "done"
                 /\ child'[i] = "none"
                 /\ starts'[i] = starts[i]]_vars

\* A watched instance whose executable cannot be launched has returned the
\* start error without ever having had a child.
C9_Witness ==
    \E i \in Inst :
        /\ Watch[i]
        /\ pc[i] = "done"
        /\ site[i] = "start"
        /\ result[i] = StartError(OsError("ENOENT"))
        /\ starts[i] = 0
        /\ ctxErr = ""

C11_OneChildAtATime ==
    /\ [](\A i \in Inst : pc[i] # "wait" => child[i] = "none")
    /\ [][\A i \in Inst :
             /\ (child[i] # "running" /\ child'[i] = "running") =>
                    (child[i] = "none" /\ pc[i] = "start" /\ pc'[i] = "wait")
             /\ (child[i] # "none" /\ child'[i] = "none") =>
                    (child[i] = "exited" /\ pc[i] = "wait" /\ pc'[i] # "wait")
             /\ (child[i] = "exited") => child'[i] # "running"]_vars

\* A watched instance runs a child again after an earlier child of its has
\* exited and been waited for.
C11_Witness ==
    \E i \in Inst :
        /\ Watch[i]
        /\ starts[i] >= 2
        /\ pc[i] = "wait"
        /\ child[i] = "running"

\* C12: a termination request is sent only on a done context and goes to
\* the child's process group (the group of a child that runs is always
\* resolved; the signal to the child alone, for a child already reaped,
\* reaches no process and counts as no request); the grace timer starts
\* with the request; a child is killed by the supervisor only while
\* it still runs, after a request, when cmdWaitDelay (10 seconds) has passed
\* since the request; under a done context a running child is eventually
\* sent the request unless it ends before, and after the request it
\* eventually ends (by itself or by the kill).
C12_TermThenGraceThenKill ==
    /\ cmdWaitDelay = 10
    /\ [](\A i \in Inst :
             /\ termSent[i] <=> termTo[i] = "group"
             /\ termSent[i] => (ctxErr # "" /\ pc[i] = "wait")
             /\ forced[i] => termSent[i] \/ pc[i] # "wait")
    /\ [][\A i \in Inst :
             /\ (~termSent[i] /\ termSent'[i]) =>
                    /\ ctxErr # ""
                    /\ grace'[i] = 0
                    /\ child[i] = "running" => termTo'[i] = "group"
                    /\ child'[i] = child[i]
             /\ (~forced[i] /\ forced'[i]) =>
                    /\ termSent[i]
                    /\ child[i] = "running"
                    /\ grace[i] >= cmdWaitDelay
                    /\ child'[i] = "exited"
                    /\ status'[i] = SignalError("SIGKILL")
             /\ (termSent[i] /\ child[i] = "running"
                   /\ grace[i] < cmdWaitDelay) =>
                    ~forced'[i]]_vars
    /\ \A i \in Inst :
          (ctxErr # "" /\ child[i] = "running" /\ ~termSent[i])
              ~> (termSent[i] \/ child[i] # "running")
    /\ \A i \in Inst :
          (termSent[i] /\ child[i] = "running") ~> (child[i] # "running")

\* A child that was sent SIGTERM through its process group did not exit
\* within the grace period and has been killed.
C12_Witness ==
    \E i \in Inst :
        /\ termSent[i]
        /\ termTo[i] = "group"
        /\ forced[i]
        /\ child[i] = "exited"
        /\ status[i] = SignalError("SIGKILL")

\* C13: once the caller's context is cancelled, Group.Run eventually returns
\* with every worker finished and no child left; in particular an instance
\* whose child is still running when the grace period has passed, and a
\* watched instance that is in its restart wait, eventually finish.
C13_CallerCancelTerminates ==
    /\ (parent = "Canceled")
          ~> (gpc = "returned"
                /\ \A i \in Inst : pc[i] = "done" /\ child[i] = "none")
    /\ \A i \in Inst :
          (parent = "Canceled" /\ termSent[i] /\ child[i] = "running"
             /\ grace[i] >= cmdWaitDelay)
              ~> (pc[i] = "done" /\ child[i] = "none")
    /\ \A i \in Inst :
          (parent = "Canceled" /\ pc[i] = "select") ~> (pc[i] = "done")

\* Group.Run returned after the caller cancelled: one child had ignored
\* SIGTERM and was killed, and a watched instance left its restart wait.
C13_Witness ==
    \E i, j \in Inst :
        /\ gpc = "returned"
        /\ parent = "Canceled"
        /\ forced[i]
        /\ Watch[j]
        /\ site[j] = "ctx"

(***************************************************************************)
(* The classification of arbitrary results: the worker of Group.Run with   *)
(* Instance.Run replaced by a function that returns any error value.       *)
(***************************************************************************)

\* The largest exit code among the classified exit errors.
MaxExitCode == 3

\* Signals a classified exit error may name.
AnySignal == {"SIGTERM", "SIGKILL", "SIGINT", "SIGHUP"}

\* Errors that are neither context errors nor process-exit errors.
PlainErrors == {OsError(w) : w \in {"ENOENT", "EACCES", "some error"}}

\* The error values handed to checkErr.
Errors ==
    {NilErr}
        \cup {CtxError(w) : w \in CtxErrors}
        \cup PlainErrors
        \cup {StartError(e) :
                 e \in {CtxError(w) : w \in CtxErrors} \cup PlainErrors}
        \cup {ExitError(c) : c \in 1 .. MaxExitCode}
        \cup {SignalError(sg) : sg \in AnySignal}

\* errs[idx] = checkErr(instance.Run(ctx)) and the cancel that follows, for
\* an Instance.Run that returns e.
Classify(i, e) ==
    /\ pc[i] = "idle"
    /\ Finish(i, e, "")
    /\ UNCHANGED <<config, parent, gpc, spawned, ret, child, status, termSent,
                   termTo, grace, forced, delay, starts, err>>

CheckErrNext == \E i \in Inst, e \in Errors : Classify(i, e)

CheckErrSpec == Init /\ [][CheckErrNext]_vars

\* C14: the classified value of a result is nil when the result is nil, is
\* or wraps context.Canceled, or is an exit caused by SIGTERM; it is the
\* result itself when the result is not a process-exit error (and does not
\* wrap context.Canceled), is an exit with a non-zero code, or is an exit
\* caused by a signal other than SIGTERM.
C14_CheckErrTable ==
    \A i \in Inst :
        pc[i] = "done" =>
            LET e == result[i]
            IN /\ e = NilErr => errs[i] = NilErr
               /\ (e.kind \in {"ctx", "start"} /\ e.wraps = "Canceled") =>
                      errs[i] = NilErr
               /\ (e.kind = "signaled" /\ e.sig = "SIGTERM") =>
                      errs[i] = NilErr
               /\ (e.kind \in {"ctx", "start", "os"} /\ e.wraps # "Canceled") =>
                      errs[i] = e
               /\ (e.kind = "exit" /\ e.code # 0) => errs[i] = e
               /\ (e.kind = "signaled" /\ e.sig # "SIGTERM") => errs[i] = e

\* An exit caused by SIGTERM was classified as nil and an exit caused by
\* SIGKILL as itself.
C14_Witness ==
    \E i, j \in Inst :
        /\ pc[i] = "done"
        /\ result[i] = SignalError("SIGTERM")
        /\ errs[i] = NilErr
        /\ pc[j] = "done"
        /\ result[j] = SignalError("SIGKILL")
        /\ errs[j] = result[j]

(***************************************************************************)
(* New, parseArgs and applyWatch.  A Go slice is a sequence; the element   *)
(* with Go index j is at position j + 1.  A string that is parsed is a     *)
(* sequence of its characters.                                             *)
(***************************************************************************)

\* The longest argument list passed to New.
MaxArgs == 3

\* The longest watch specification (in characters) passed to New.
MaxWatchLen == 3

\* The sequences over S of length at most n.
SeqsUpTo(S, n) == UNION {[1 .. k -> S] : k \in 0 .. n}

\* slicesSplitSeq(s, sep) that also takes an element beginning with the
\* separator ("--flag1") for the separator.
RECURSIVE SplitFromPrefix(_, _, _, _)
SplitFromPrefix(s, sep, start, i) ==
    IF i > Len(s)
    THEN <<SubSeq(s, start, Len(s))>>
    ELSE IF s[i] \in {sep, "--flag1"}
         THEN <<SubSeq(s, start, i - 1)>>
                  \o SplitFromPrefix(s, sep, i + 1, i + 1)
         ELSE SplitFromPrefix(s, sep, start, i + 1)

\* slicesSplitSeq(s, sep) with start = i in place of start = i + 1.
RECURSIVE SplitFromKeepSep(_, _, _, _)
SplitFromKeepSep(s, sep, start, i) ==
    IF i > Len(s)
    THEN <<SubSeq(s, start, Len(s))>>
    ELSE IF s[i] = sep
         THEN <<SubSeq(s, start, i - 1)>> \o SplitFromKeepSep(s, sep, i, i + 1)
         ELSE SplitFromKeepSep(s, sep, start, i + 1)

\* slicesSplitSeq(s, sep) from the loop position i on, with the current
\* segment beginning at start: yield(s[start:i]) at every element equal to
\* sep, and yield(s[start:]) after the loop.
RECURSIVE SplitFrom(_, _, _, _)
SplitFrom(s, sep, start, i) ==
    IF i > Len(s)
    THEN <<SubSeq(s, start, Len(s))>>
    ELSE IF s[i] = sep
         THEN <<SubSeq(s, start, i - 1)>> \o SplitFrom(s, sep, i + 1, i + 1)
         ELSE SplitFrom(s, sep, start, i + 1)

slicesSplitSeq(s, sep) == SplitFrom(s, sep, 1, 1)

\* parseArgs splits arguments into sections on "--" delimiters.
parseArgs(args) == slicesSplitSeq(args, "--")

\* New's instances without the global arguments in front.
InstancesNoGlobal(p, sg, logger) ==
    IF Len(sg) > 1
    THEN [j \in 1 .. (Len(sg) - 1) |->
            [Name |-> p, Args |-> sg[j + 1], Watch |-> FALSE,
             Logger |-> logger]]
    ELSE <<[Name |-> p, Args |-> sg[1], Watch |-> FALSE, Logger |-> logger]>>

\* New's instances with one instance for every segment, the first included.
InstancesPerSegment(p, sg, logger) ==
    [j \in 1 .. Len(sg) |->
        [Name |-> p, Args |-> IF j = 1 THEN sg[1] ELSE sg[1] \o sg[j],
         Watch |-> FALSE, Logger |-> logger]]

\* The instances New builds from the segments sg: one for every segment
\* after the first, with slices.Concat(globalArgs, args) as arguments, and a
\* single one with the global arguments when there is no such segment.
Instances(p, sg, logger) ==
    IF Len(sg) > 1
    THEN [j \in 1 .. (Len(sg) - 1) |->
            [Name |-> p, Args |-> sg[1] \o sg[j + 1], Watch |-> FALSE,
             Logger |-> logger]]
    ELSE <<[Name |-> p, Args |-> sg[1], Watch |-> FALSE, Logger |-> logger]>>

\* args = parseArgs(opts.args); globalArgs = args[0]; the loop over args[1:]
\* and the single instance for an empty result.
NewBuild ==
    /\ npc = "build"
    /\ segs' = parseArgs(opts.args)
    /\ instances' = Instances(path, segs', opts.logger)
    /\ npc' = "watch"
    /\ UNCHANGED <<vars, name, opts, path, indexes, group, newErr>>

\* Argument tokens, the delimiter and a flag that begins with it among them.
Tokens == {"a", "b", "-flag", "--flag1", "--"}

\* New has resolved the command and is about to split any argument list.
ParseInit ==
    /\ RunInit
    /\ Watch = [i \in Inst |-> FALSE]
    /\ name = "echo"
    /\ opts \in [args : SeqsUpTo(Tokens, MaxArgs),
                 watch : {DefaultOptions.watch},
                 logger : {DefaultOptions.logger}]
    /\ npc = "build"
    /\ path = <<"/bin", "echo">>
    /\ segs = <<>>
    /\ instances = <<>>
    /\ indexes = <<>>
    /\ group = NilGroup
    /\ newErr = ""
    /\ Library

ParseNext == NewBuild

ParseSpec == ParseInit /\ [][ParseNext]_<<vars, build>>

\* The positions of the argument list a that hold the delimiter.
Delims(a) == {i \in 1 .. Len(a) : a[i] = "--"}

IsNoDelim(t) == t # "--"

\* The concatenation of the segments sg.
RECURSIVE Flatten(_)
Flatten(sg) == IF sg = <<>> THEN <<>> ELSE Head(sg) \o Flatten(Tail(sg))

\* The segments sg with the delimiter between consecutive ones.
RECURSIVE JoinSegs(_)
JoinSegs(sg) ==
    IF Len(sg) <= 1 THEN Flatten(sg)
    ELSE Head(sg) \o <<"--">> \o JoinSegs(Tail(sg))

\* C15: for an argument list with k tokens equal to "--", parseArgs returns
\* k + 1 segments; the segments hold the other tokens in input order; the
\* segment before a leading delimiter, after a trailing delimiter and between
\* two consecutive delimiters is empty; tokens such as "--flag1" are no
\* delimiters, and without a delimiter the single segment is the input.
C15_SegmentsPerDelimiter ==
    npc = "watch" =>
        LET a == opts.args
            k == Cardinality(Delims(a))
        IN /\ Len(segs) = k + 1
           /\ Flatten(segs) = SelectSeq(a, IsNoDelim)
           /\ (1 \in Delims(a)) => segs[1] = <<>>
           /\ (Len(a) > 0 /\ Len(a) \in Delims(a)) => segs[k + 1] = <<>>
           /\ \A i \in Delims(a) :
                 (i + 1) \in Delims(a) =>
                     segs[Cardinality({d \in Delims(a) : d <= i}) + 1] = <<>>
           /\ \A i \in 1 .. Len(a) : a[i] = "--flag1" => i \notin Delims(a)
           /\ k = 0 => segs = <<a>>

\* A list with a leading and a trailing delimiter around a flag that begins
\* with "--" was split into an empty segment, the flag and an empty segment.
C15_Witness ==
    /\ npc = "watch"
    /\ opts.args = <<"--", "--flag1", "--">>
    /\ segs = << <<>>, <<"--flag1">>, <<>> >>

\* C16: the segments returned by parseArgs, joined with "--" between
\* consecutive segments, are the argument list, and no segment holds "--".
C16_SplitJoinRoundTrip ==
    npc = "watch" =>
        /\ JoinSegs(segs) = opts.args
        /\ \A j \in 1 .. Len(segs) :
              \A i \in 1 .. Len(segs[j]) : segs[j][i] # "--"

\* A list with delimiters was split into several segments that join to it.
C16_Witness ==
    /\ npc = "watch"
    /\ Len(segs) = 3
    /\ segs[2] # <<>>
    /\ JoinSegs(segs) = opts.args

(***************************************************************************)
(* parseInts and applyWatch                                                *)
(***************************************************************************)

\* strings.TrimSpace: the string without its leading and trailing spaces.
RECURSIVE TrimSpace(_)
TrimSpace(p) ==
    IF p = <<>> THEN p
    ELSE IF Head(p) = " " THEN TrimSpace(Tail(p))
    ELSE IF p[Len(p)] = " " THEN TrimSpace(SubSeq(p, 1, Len(p) - 1))
    ELSE p

Digits == {"0", "1", "2", "3", "4", "5", "6", "7", "8", "9"}

DigitVal(c) ==
    CASE c = "0" -> 0 [] c = "1" -> 1 [] c = "2" -> 2 [] c = "3" -> 3
      [] c = "4" -> 4 [] c = "5" -> 5 [] c = "6" -> 6 [] c = "7" -> 7
      [] c = "8" -> 8 [] c = "9" -> 9

\* The value of the decimal digits d after the value acc of the digits
\* before them.
RECURSIVE Decimal(_, _)
Decimal(d, acc) ==
    IF d = <<>> THEN acc ELSE Decimal(Tail(d), 10 * acc + DigitVal(Head(d)))

\* strconv.Atoi: an optional sign and one or more decimal digits.
Atoi(p) ==
    LET signed == p # <<>> /\ Head(p) \in {"+", "-"}
        d == IF signed THEN Tail(p) ELSE p
    IN IF d = <<>> \/ \E i \in 1 .. Len(d) : d[i] \notin Digits
       THEN [ok |-> FALSE, n |-> 0]
       ELSE [ok |-> TRUE,
             n |-> IF signed /\ Head(p) = "-" THEN 0 - Decimal(d, 0)
                   ELSE Decimal(d, 0)]

\* The loop of parseInts that passes the empty parts to strconv.Atoi too.
RECURSIVE ParsePartsNoSkip(_, _)
ParsePartsNoSkip(parts, ints) ==
    IF parts = <<>> THEN [ok |-> TRUE, ints |-> ints]
    ELSE LET part == TrimSpace(Head(parts))
         IN IF ~Atoi(part).ok THEN [ok |-> FALSE, ints |-> <<>>]
            ELSE ParsePartsNoSkip(Tail(parts), Append(ints, Atoi(part).n))

\* The loop of parseInts over the remaining parts, with the integers
\* appended so far: trim, skip what is empty, fail on what is no integer.
RECURSIVE ParseParts(_, _)
ParseParts(parts, ints) ==
    IF parts = <<>> THEN [ok |-> TRUE, ints |-> ints]
    ELSE LET part == TrimSpace(Head(parts))
         IN IF part = <<>> THEN ParseParts(Tail(parts), ints)
            ELSE IF ~Atoi(part).ok THEN [ok |-> FALSE, ints |-> <<>>]
            ELSE ParseParts(Tail(parts), Append(ints, Atoi(part).n))

\* parseInts parses a comma-separated list of integers (strings.SplitSeq
\* yields the parts as slicesSplitSeq yields segments).
parseInts(w) == ParseParts(SplitFrom(w, ",", 1, 1), <<>>)

\* The watch specifications "none" and "all".
None == <<"n", "o", "n", "e">>

All == <<"a", "l", "l">>

\* New returns the Group of its instances.
NewReturns(inst) ==
    /\ group' = [ok |-> TRUE, Instances |-> inst]
    /\ newErr' = ""
    /\ npc' = "returned"

\* New returns nil and the error e.
NewFails(e) ==
    /\ group' = NilGroup
    /\ newErr' = e
    /\ npc' = "returned"

(***************************************************************************)
(* New                                                                     *)
(***************************************************************************)

\* Command names, and the ones exec.LookPath finds.
Names == {"echo", "nosuchcmd"}

OnPath == {"echo"}

\* if opts.logger == nil { return nil, errors.New("nil logger") }
NewCheckLogger ==
    /\ npc = "new"
    /\ IF opts.logger = "nil"
       THEN NewFails("nil logger")
       ELSE /\ npc' = "lookpath"
            /\ UNCHANGED <<group, newErr>>
    /\ UNCHANGED <<vars, name, opts, path, segs, instances, indexes>>

\* path, err := exec.LookPath(name)
NewLookPath ==
    /\ npc = "lookpath"
    /\ IF name \notin OnPath
       THEN /\ NewFails("look path")
            /\ UNCHANGED path
       ELSE /\ path' = <<"/bin", name>>
            /\ npc' = "build"
            /\ UNCHANGED <<group, newErr>>
    /\ UNCHANGED <<vars, name, opts, segs, instances, indexes>>

\* applyWatch up to its range loop, and New's return when applyWatch
\* returns here.
ApplyWatch ==
    /\ npc = "watch"
    /\ IF opts.watch \in {<<>>, None}
       THEN /\ NewReturns(instances)
            /\ UNCHANGED <<instances, indexes>>
       ELSE IF opts.watch = All
       THEN /\ instances' = [j \in DOMAIN instances |->
                               [instances[j] EXCEPT !.Watch = TRUE]]
            /\ NewReturns(instances')
            /\ UNCHANGED indexes
       ELSE IF ~parseInts(opts.watch).ok
       THEN /\ NewFails("parse watch: parse int")
            /\ UNCHANGED <<instances, indexes>>
       ELSE /\ indexes' = parseInts(opts.watch).ints
            /\ npc' = "apply"
            /\ UNCHANGED <<instances, group, newErr>>
    /\ UNCHANGED <<vars, name, opts, path, segs>>

\* The range loop of applyWatch that passes over an index out of range.
ApplyIndexSkipInvalid ==
    /\ npc = "apply"
    /\ IF indexes = <<>>
       THEN /\ NewReturns(instances)
            /\ UNCHANGED <<instances, indexes>>
       ELSE /\ indexes' = Tail(indexes)
            /\ instances' =
                  IF Head(indexes) < 0 \/ Head(indexes) >= Len(instances)
                  THEN instances
                  ELSE [instances EXCEPT ![Head(indexes) + 1].Watch = TRUE]
            /\ UNCHANGED <<npc, group, newErr>>
    /\ UNCHANGED <<vars, name, opts, path, segs>>

\* One pass of the range loop of applyWatch, or its end, and New's return
\* when applyWatch returns.
ApplyIndex ==
    /\ npc = "apply"
    /\ IF indexes = <<>>
       THEN /\ NewReturns(instances)
            /\ UNCHANGED <<instances, indexes>>
       ELSE IF Head(indexes) < 0 \/ Head(indexes) >= Len(instances)
       THEN /\ NewFails("parse watch: index out of range")
            /\ UNCHANGED <<instances, indexes>>
       ELSE /\ instances' =
                  [instances EXCEPT ![Head(indexes) + 1].Watch = TRUE]
            /\ indexes' = Tail(indexes)
            /\ UNCHANGED <<npc, group, newErr>>
    /\ UNCHANGED <<vars, name, opts, path, segs>>

\* The characters of the watch specifications.
WatchChars == {"0", "1", ",", " ", "-", "x"}

WatchSpecs == SeqsUpTo(WatchChars, MaxWatchLen) \cup {None, All}

\* The argument lists passed to New.
ArgLists ==
    SeqsUpTo({"a", "b", "--"}, MaxArgs) \cup {<<"a", "-flag", "--", "b">>}

\* New has been called and the caller's options have been applied.
NewInit ==
    /\ RunInit
    /\ Watch = [i \in Inst |-> FALSE]
    /\ name \in Names
    /\ opts \in [args : ArgLists, watch : WatchSpecs,
                 logger : {"nil", "discard"}]
    /\ npc = "new"
    /\ path = <<>>
    /\ segs = <<>>
    /\ instances = <<>>
    /\ indexes = <<>>
    /\ group = NilGroup
    /\ newErr = ""
    /\ Library

NewNext ==
    \/ NewCheckLogger
    \/ NewLookPath
    \/ NewBuild
    \/ ApplyWatch
    \/ ApplyIndex

NewSpec == NewInit /\ [][NewNext]_<<vars, build>>

\* C17: the instances New builds, and returns when it succeeds, come from
\* the segments s0 .. sk of the argument list (the parts between its
\* delimiters): for k >= 1 there are k instances and instance j has the
\* arguments s0 ++ s(j+1); for k = 0 there is one instance with the whole
\* input; there is never no instance, and every instance has the resolved
\* path of the command as Name.
C17_InstancesFromSegments ==
    npc \in {"watch", "apply", "returned"} =>
        /\ group.ok => (npc = "returned" /\ group.Instances = instances)
        /\ instances # <<>> =>
              LET k == Len(segs) - 1
              IN /\ JoinSegs(segs) = opts.args
                 /\ \A j \in 1 .. Len(segs) :
                       SelectSeq(segs[j], IsNoDelim) = segs[j]
                 /\ k >= 1 =>
                       /\ Len(instances) = k
                       /\ \A j \in 0 .. (k - 1) :
                             instances[j + 1].Args = segs[1] \o segs[j + 2]
                 /\ k = 0 =>
                       /\ Len(instances) = 1
                       /\ instances[1].Args = opts.args
                 /\ \A j \in 1 .. Len(instances) :
                       /\ name \in OnPath
                       /\ instances[j].Name = <<"/bin", name>>
        /\ (npc \in {"watch", "apply"} \/ group.ok) => Len(instances) >= 1

\* New returned two instances that share a global argument.
C17_Witness ==
    /\ npc = "returned"
    /\ group.ok
    /\ Len(group.Instances) = 2
    /\ segs[1] # <<>>
    /\ group.Instances[1].Args = segs[1] \o segs[2]
    /\ group.Instances[2].Args = segs[1] \o segs[3]

\* The scenario of C18: New has returned for the command echo with the
\* arguments a, -flag, --, b and the watch specification "none".
EchoScenario ==
    /\ npc = "returned"
    /\ name = "echo"
    /\ opts.logger # "nil"
    /\ opts.args = <<"a", "-flag", "--", "b">>
    /\ opts.watch = None

\* The statement of C18 as written: the scenario yields two instances, the
\* first with the arguments a, -flag and the second with a, -flag, b.
C18_EchoTwoInstances ==
    EchoScenario =>
        /\ group.ok
        /\ Len(group.Instances) = 2
        /\ group.Instances[1].Args = <<"a", "-flag">>
        /\ group.Instances[2].Args = <<"a", "-flag", "b">>

\* C18 (amended): the scenario yields one instance, with the arguments
\* a, -flag, b (the global arguments a, -flag before the instance's own b),
\* the resolved path of echo as Name and Watch false.
C18_EchoOneInstance ==
    EchoScenario =>
        /\ group.ok
        /\ newErr = ""
        /\ Len(group.Instances) = 1
        /\ group.Instances[1].Args = <<"a", "-flag", "b">>
        /\ group.Instances[1].Name = <<"/bin", "echo">>
        /\ ~group.Instances[1].Watch

\* New has returned for the scenario of C18.
C18_Witness ==
    /\ EchoScenario
    /\ group.ok
    /\ segs = << <<"a", "-flag">>, <<"b">> >>

\* The parts of the watch specification w between its commas.
PartsOf(w) ==
    LET cut == {0} \cup {i \in 1 .. Len(w) : w[i] = ","} \cup {Len(w) + 1}
    IN {SubSeq(w, x[1] + 1, x[2] - 1) :
          x \in {y \in cut \X cut :
                   /\ y[1] < y[2]
                   /\ ~\E c \in cut : y[1] < c /\ c < y[2]}}

\* The part p without the spaces around it.
Strip(p) ==
    LET ns == {i \in 1 .. Len(p) : p[i] # " "}
    IN IF ns = {} THEN <<>>
       ELSE SubSeq(p, CHOOSE i \in ns : \A j \in ns : i <= j,
                      CHOOSE i \in ns : \A j \in ns : i >= j)

\* The tokens of w: its parts without surrounding spaces, the empty ones
\* left out.
WatchTokens(w) == {Strip(p) : p \in PartsOf(w)} \ {<<>>}

\* The watch specification w names only instances of a group of n.
WatchValid(w, n) ==
    \/ w \in {<<>>, None, All}
    \/ \A t \in WatchTokens(w) : Atoi(t).ok /\ Atoi(t).n \in 0 .. (n - 1)

\* The set of indexes w resolves to for a group of n instances.
WatchSet(w, n) ==
    IF w \in {<<>>, None} THEN {}
    ELSE IF w = All THEN 0 .. (n - 1)
    ELSE {Atoi(t).n : t \in WatchTokens(w)}

\* C19: when New has built N instances, it succeeds exactly when the watch
\* specification is "", "none", "all" or has only integer tokens in 0..N-1
\* (spaces around tokens and empty tokens ignored); and after a successful
\* New instance i is watched exactly when i is in the set the specification
\* resolves to: none for "" and "none", all for "all", and otherwise the
\* integers of its tokens, a repeated one counting once.
C19_WatchSetResolved ==
    (npc = "returned" /\ instances # <<>>) =>
        LET n == Len(instances)
        IN /\ group.ok <=> WatchValid(opts.watch, n)
           /\ group.ok =>
                 /\ Len(group.Instances) = n
                 /\ \A i \in 0 .. (n - 1) :
                       group.Instances[i + 1].Watch
                           <=> i \in WatchSet(opts.watch, n)

\* New succeeded for two instances and the specification ", 1": only
\* instance 1 is watched.
C19_Witness ==
    /\ npc = "returned"
    /\ group.ok
    /\ opts.watch = <<",", " ", "1">>
    /\ Len(group.Instances) = 2
    /\ ~group.Instances[1].Watch
    /\ group.Instances[2].Watch

\* C20: New returns nil and an error when the logger is nil, when the
\* command is not found on the search path, or when the watch
\* specification has a token that is no integer or an index outside
\* [0, number of instances); a Group is returned only without an error and
\* not before New returns, so the flags set before an invalid index was met
\* are not returned; and New starts no worker and no child.
C20_NoGroupOnError ==
    /\ npc # "returned" => (group = NilGroup /\ newErr = "")
    /\ npc = "returned" =>
          /\ group.ok <=> newErr = ""
          /\ ~group.ok => group = NilGroup
          /\ opts.logger = "nil" => ~group.ok
          /\ name \notin OnPath => ~group.ok
          /\ (instances # <<>>
                /\ ~WatchValid(opts.watch, Len(instances))) => ~group.ok
    /\ \A i \in Inst :
          pc[i] = "idle" /\ child[i] = "none" /\ starts[i] = 0

\* New failed on an index out of range after it had set the Watch flag of
\* an instance for a valid index before it.
C20_Witness ==
    /\ npc = "returned"
    /\ group = NilGroup
    /\ newErr = "parse watch: index out of range"
    /\ \E j \in 1 .. Len(instances) : instances[j].Watch

(***************************************************************************)
(* run, the CLI entry point: flag parsing, New, Group.Run and the exit     *)
(* code.  A command-line token is a string; the FlagSet of run is read     *)
(* token by token.                                                         *)
(***************************************************************************)

\* const gokrazyDoNotSuperviseExitCode = 125
gokrazyDoNotSuperviseExitCode == 125

\* The tokens that the FlagSet takes for a flag: the flag it defines
\* (-watch), the names that ask for help, and a flag it does not define.
FlagTokens == {"-watch", "-help", "-h", "-nonexistent"}

\* flagSet.Parse(a) with w as the value of -watch so far: a flag is read with
\* its value, "--" ends the flags, and so does the first token that is no
\* flag; the rest is flagSet.Args().
RECURSIVE FlagParse(_, _)
FlagParse(a, w) ==
    IF a = <<>>
    THEN [err |-> "", watch |-> w, positional |-> <<>>]
    ELSE IF Head(a) = "--"
    THEN [err |-> "", watch |-> w, positional |-> Tail(a)]
    ELSE IF Head(a) \notin FlagTokens
    THEN [err |-> "", watch |-> w, positional |-> a]
    ELSE IF Head(a) \in {"-help", "-h"}
    THEN [err |-> "flag: help requested", watch |-> w, positional |-> <<>>]
    ELSE IF Head(a) # "-watch"
    THEN [err |-> "flag provided but not defined", watch |-> w,
          positional |-> <<>>]
    ELSE IF Tail(a) = <<>>
    THEN [err |-> "flag needs an argument", watch |-> w, positional |-> <<>>]
    ELSE FlagParse(Tail(Tail(a)), a[2])

\* The characters of a token given as the value of -watch.
Chars(t) ==
    CASE t = "none" -> None
      [] t = "all" -> All
      [] t = "0" -> <<"0">>
      [] t = "5" -> <<"5">>
      [] t = "abc" -> <<"a", "b", "c">>

\* run returns the exit code c.
RunExits(c) == cli' = [cli EXCEPT !.pc = "returned", !.code = c]

\* flagSet.Parse(args[1:]) and its error, the test for a command among
\* flagSet.Args(), and the call of New with the command, the other
\* arguments, the value of -watch and the logger of run.
RunParse ==
    /\ cli.pc = "parse"
    /\ LET r == FlagParse(Tail(cli.args), "none")
       IN IF r.err = "flag: help requested"
          THEN /\ RunExits(0)
               /\ UNCHANGED <<name, opts, npc>>
          ELSE IF r.err # "" \/ r.positional = <<>>
          THEN /\ RunExits(gokrazyDoNotSuperviseExitCode)
               /\ UNCHANGED <<name, opts, npc>>
          ELSE /\ name' = Head(r.positional)
               /\ opts' = [args |-> Tail(r.positional),
                           watch |-> Chars(r.watch), logger |-> "json"]
               /\ npc' = "new"
               /\ cli' = [cli EXCEPT !.pc = "new"]
    /\ UNCHANGED <<Watch, parent, ctxErr, ctxCause, gpc, spawned, ret, pc,
                   child, status, termSent, termTo, grace, forced, delay,
                   starts, err, site, result, errs, access, path, segs,
                   instances, indexes, group, newErr>>

\* run that returns the generic failure code 1 when New fails.
RunNewFailureIsOne ==
    /\ cli.pc = "new"
    /\ npc = "returned"
    /\ IF newErr # ""
       THEN /\ RunExits(1)
            /\ UNCHANGED Watch
       ELSE /\ Watch' = [i \in Inst |-> group.Instances[i + 1].Watch]
            /\ cli' = [cli EXCEPT !.pc = "run"]
    /\ UNCHANGED <<build, parent, ctxErr, ctxCause, gpc, spawned, ret, pc,
                   child, status, termSent, termTo, grace, forced, delay,
                   starts, err, site, result, errs, access>>

\* New has returned: its error makes run return; otherwise run calls
\* group.Run(ctx) under signal.NotifyContext, with the instances of the group.
RunCallGroup ==
    /\ cli.pc = "new"
    /\ npc = "returned"
    /\ IF newErr # ""
       THEN /\ RunExits(gokrazyDoNotSuperviseExitCode)
            /\ UNCHANGED Watch
       ELSE /\ Watch' = [i \in Inst |-> group.Instances[i + 1].Watch]
            /\ cli' = [cli EXCEPT !.pc = "run"]
    /\ UNCHANGED <<build, parent, ctxErr, ctxCause, gpc, spawned, ret, pc,
                   child, status, termSent, termTo, grace, forced, delay,
                   starts, err, site, result, errs, access>>

\* group.Run has returned: if err != nil { return 1 }; return 0
RunReturn ==
    /\ cli.pc = "run"
    /\ gpc = "returned"
    /\ RunExits(IF ret # <<>> THEN 1 ELSE 0)
    /\ UNCHANGED <<Watch, build, parent, ctxErr, ctxCause, gpc, spawned, ret,
                   pc, child, status, termSent, termTo, grace, forced, delay,
                   starts, err, site, result, errs, access>>

\* The arguments that make New build NumInstances instances: "--" and one
\* argument for each.
RECURSIVE PerInstance(_)
PerInstance(n) == IF n = 0 THEN <<>> ELSE <<"--", "a">> \o PerInstance(n - 1)

\* The command lines of run after args[0]: without a command, with flags
\* that fail to parse, with a request for help, with a command that is not
\* found, with watch values New rejects, and with ones it accepts.
CommandLines ==
    {<<>>, <<"--">>, <<"-help">>, <<"-h">>, <<"-nonexistent">>, <<"-watch">>,
     <<"-watch", "0">>, <<"nosuchcmd">>, <<"--", "nosuchcmd", "-help">>}
        \cup {l \o PerInstance(NumInstances) :
                l \in {<<"echo">>, <<"--", "echo">>, <<"-watch", "0", "echo">>,
                       <<"-watch", "5", "echo">>, <<"-watch", "abc", "echo">>,
                       <<"-watch", "abc", "-watch", "none", "echo">>}}

\* main has called run(ctx, os.Args).
MainInit ==
    /\ RunInit
    /\ Watch = [i \in Inst |-> FALSE]
    /\ name = ""
    /\ opts = DefaultOptions
    /\ npc = "idle"
    /\ path = <<>>
    /\ segs = <<>>
    /\ instances = <<>>
    /\ indexes = <<>>
    /\ group = NilGroup
    /\ newErr = ""
    /\ cli \in [args : {<<"cmdgroup">> \o l : l \in CommandLines},
                pc : {"parse"}, code : {-1}]

\* run: its own steps, the steps of New while New executes, and the steps of
\* Group.Run while Group.Run executes.
MainNext ==
    \/ RunParse
    \/ cli.pc = "new" /\ NewNext
    \/ RunCallGroup
    \/ cli.pc = "run" /\ Next
    \/ RunReturn

MainSpec == MainInit /\ [][MainNext]_<<vars, build>>

\* The result of parsing the flags of the command line of run.
Parsed == FlagParse(Tail(cli.args), "none")

\* No worker and no child has been started.
NothingStarted ==
    /\ spawned = 0
    /\ \A i \in Inst : pc[i] = "idle" /\ child[i] = "none" /\ starts[i] = 0

\* C21: run returns 125 when the flags fail to parse (other than by a request
\* for help), when no command is given, or when New fails, and no worker and
\* no child was started then, nor before Group.Run is called; it returns 0
\* when help was requested; when Group.Run was called it returns after
\* Group.Run has, 1 when Group.Run returned an error and 0 when it returned
\* nil; it returns nothing else.
C21_ExitCodes ==
    /\ cli.pc \in {"parse", "new"} => NothingStarted
    /\ cli.pc = "returned" =>
          /\ cli.code \in {0, 1, gokrazyDoNotSuperviseExitCode}
          /\ Parsed.err = "flag: help requested" =>
                (cli.code = 0 /\ NothingStarted)
          /\ Parsed.err \notin {"", "flag: help requested"} =>
                (cli.code = 125 /\ NothingStarted)
          /\ (Parsed.err = "" /\ Parsed.positional = <<>>) =>
                (cli.code = 125 /\ NothingStarted)
          /\ newErr # "" => (cli.code = 125 /\ NothingStarted)
          /\ cli.code = 125 => (NothingStarted /\ gpc = "spawn")
          /\ gpc = "returned" =>
                /\ ret # <<>> => cli.code = 1
                /\ ret = <<>> => cli.code = 0
          /\ cli.code = 1 => (gpc = "returned" /\ ret # <<>>)
          /\ (cli.code = 0 /\ Parsed.err = "") =>
                (gpc = "returned" /\ ret = <<>>)

\* run returned 1 after the unwatched instance of its group had failed and
\* the watched one, selected by -watch 0, had been stopped.
C21_Witness ==
    /\ cli.pc = "returned"
    /\ cli.code = 1
    /\ Watch[0]
    /\ starts[0] >= 1
    /\ errs[1] # NilErr

(***************************************************************************)
(* Properties of Group.Run: aggregation, result slots, configuration       *)
(***************************************************************************)

\* The instances whose result slot is not nil.
Filled == {i \in Inst : errs[i] # NilErr}

\* C22: the value returned by Group.Run lists the non-nil result slots in
\* instance index order: the error of instance i stands at the position
\* that counts the failed instances up to i, whatever the order in which the
\* workers finished; and every slot holds the classified result of its
\* instance.
C22_AggregateInIndexOrder ==
    gpc = "returned" =>
        /\ Len(ret) = Cardinality(Filled)
        /\ \A i \in Filled :
              ret[Cardinality({j \in Filled : j <= i})] = errs[i]
        /\ \A i, j \in Filled :
              i < j =>
                  \E k, l \in 1 .. Len(ret) :
                      k < l /\ ret[k] = errs[i] /\ ret[l] = errs[j]
        /\ \A i \in Inst : errs[i] = checkErr(result[i])

\* Group.Run returned the error of instance 0 before the error of instance
\* 1 although instance 1 finished first: its exit error is the cause of the
\* cancellation after which the child of instance 0 was killed.
C22_Witness ==
    /\ gpc = "returned"
    /\ ~Watch[0] /\ ~Watch[1]
    /\ errs[1] = ExitError(1)
    /\ ctxCause = errs[1]
    /\ forced[0]
    /\ errs[0] = SignalError("SIGKILL")
    /\ ret[1] = errs[0]
    /\ ret[2] = errs[1]

\* C23: a result slot is written at most once, by the worker of its own
\* instance, as that worker finishes, and exactly once before Group.Run
\* returns; a worker reads no slot but its own; the value of a slot changes
\* only by that write; Group.Run reads the slots only when every worker has
\* finished, and no slot is written after it has been read.
C23_SlotWrittenOnceByOwner ==
    /\ [](\A i \in Inst :
             /\ access[i].writes <= 1
             /\ access[i].writers \subseteq {i}
             /\ access[i].readers \subseteq {i}
             /\ access[i].writes = 1 <=> pc[i] = "done"
             /\ access[i].writes = 0 => errs[i] = NilErr
             /\ access[i].joined =>
                    \A j \in Inst : pc[j] = "done" /\ access[j].writes = 1
             /\ gpc = "returned" <=> access[i].joined)
    /\ [][\A i \in Inst :
             /\ access'[i].writes # access[i].writes =>
                    (Finishes(i) /\ ~access[i].joined)
             /\ errs'[i] # errs[i] => access'[i].writes = access[i].writes + 1
             /\ access[i].joined =>
                    (access'[i] = access[i] /\ errs'[i] = errs[i])]_vars

\* Group.Run returned after each slot had been written once, by its own
\* worker: one with an error and one with nil.
C23_Witness ==
    /\ gpc = "returned"
    /\ \A i \in Inst :
          access[i] = [writes |-> 1, writers |-> {i}, readers |-> {i},
                       joined |-> TRUE]
    /\ errs[0] # NilErr
    /\ errs[1] = NilErr

\* C24: from the call of Group.Run to its return the group is the one New
\* returned: it has NumInstances instances, in the same order, and no step
\* of Group.Run, of a worker, of a child or of a timer changes the Name, the
\* Args or the Watch flag of an instance, or the flag the workers read.
C24_ConfigUnchanged ==
    /\ [](/\ group.ok
          /\ Len(group.Instances) = NumInstances
          /\ \A i \in Inst : group.Instances[i + 1].Watch = Watch[i])
    /\ [][/\ Len(group'.Instances) = Len(group.Instances)
          /\ \A j \in 1 .. Len(group.Instances) :
                /\ group'.Instances[j].Name = group.Instances[j].Name
                /\ group'.Instances[j].Args = group.Instances[j].Args
                /\ group'.Instances[j].Watch = group.Instances[j].Watch
          /\ Watch' = Watch]_vars

\* Group.Run returned after a cancellation and after a watched instance had
\* restarted its child; the instance is still watched.
C24_Witness ==
    \E i \in Inst :
        /\ gpc = "returned"
        /\ ctxErr = "Canceled"
        /\ starts[i] >= 2
        /\ Watch[i]
        /\ group.Instances[i + 1].Watch

(***************************************************************************)
(* Properties of the classification inside Group.Run                       *)
(***************************************************************************)

\* cmd.Wait of the unwatched instance i returns in this step for a child
\* that a signal ended, while the context is not done and no termination
\* request was sent to the child: the signal is not the supervisor's.
ForeignSignalExit(i) ==
    /\ ~Watch[i]
    /\ pc[i] = "wait"
    /\ pc'[i] = "done"
    /\ status[i].kind = "signaled"
    /\ ~termSent[i]
    /\ ctxErr = ""

\* Instance i is reported as a failure in this step: its slot holds the
\* error of its child and the context is cancelled with it as the cause.
ReportedAsFailure(i) ==
    /\ result'[i] = status[i]
    /\ errs'[i] = status[i]
    /\ errs'[i] # NilErr
    /\ ctxErr' = "Canceled"
    /\ ctxCause' = errs'[i]

\* The statement of C25 as written: an unwatched instance whose child was
\* ended by a signal the supervisor did not send is reported as a failure
\* and cancels the group.
C25_ForeignSignalIsFailure ==
    [][\A i \in Inst : ForeignSignalExit(i) => ReportedAsFailure(i)]_vars

\* C25 (amended): a child exit is classified by the signal that ended the
\* child, not by its sender.  An unwatched instance whose child was ended by
\* a signal other than SIGTERM that the supervisor did not send is reported
\* as a failure: its error cancels the group and is in the aggregate
\* returned by Group.Run.  A child ended by SIGTERM is classified as
\* ignorable also when the supervisor had requested no cancellation: the
\* slot of the instance is nil and the context is left as it is.
C25_OnlySigtermIsIgnorable ==
    /\ [][\A i \in Inst :
             ForeignSignalExit(i) =>
                 /\ result'[i] = status[i]
                 /\ status[i].sig # "SIGTERM" => ReportedAsFailure(i)
                 /\ status[i].sig = "SIGTERM" =>
                        /\ errs'[i] = NilErr
                        /\ ctxErr' = ""
                        /\ ctxCause' = ctxCause]_vars
    /\ [](\A i \in Inst :
             (pc[i] = "done" /\ result[i].kind = "signaled") =>
                 /\ errs[i] = NilErr <=> result[i].sig = "SIGTERM"
                 /\ (gpc = "returned" /\ result[i].sig # "SIGTERM") =>
                        \E k \in 1 .. Len(ret) : ret[k] = result[i])

\* The child of an unwatched instance was ended by a SIGTERM while the
\* context was not done; the instance has returned the exit error, its slot
\* is nil and the context is still not done.
C25_Witness ==
    \E i \in Inst :
        /\ ~Watch[i]
        /\ pc[i] = "done"
        /\ site[i] = "wait"
        /\ result[i] = SignalError("SIGTERM")
        /\ errs[i] = NilErr
        /\ ctxErr = ""

\* The statement of C26 as written: the error of every instance whose child
\* was killed after the grace period, watched or not, is in the aggregate
\* returned by Group.Run.
C26_ForcedKillInAggregate ==
    gpc = "returned" =>
        \A i \in Inst :
            forced[i] =>
                /\ errs[i] = SignalError("SIGKILL")
                /\ \E k \in 1 .. Len(ret) : ret[k] = errs[i]

\* C26 (amended): when a child did not exit within the grace period and was
\* killed, an unwatched instance returns the exit error of the kill, which
\* is classified as a failure and is in the aggregate returned by Group.Run;
\* a watched instance does not return that error: it returns the error of
\* the done context (or a start error wrapping it), so that it contributes
\* nothing to the aggregate when the context was cancelled.
C26_ForcedKillOfUnwatchedPropagates ==
    \A i \in Inst :
        (forced[i] /\ pc[i] = "done") =>
            /\ ctxErr # ""
            /\ ~Watch[i] =>
                  /\ result[i] = SignalError("SIGKILL")
                  /\ errs[i] = result[i]
                  /\ gpc = "returned" =>
                        \E k \in 1 .. Len(ret) : ret[k] = errs[i]
            /\ Watch[i] =>
                  /\ result[i].kind \in {"ctx", "start"}
                  /\ result[i].wraps = ctxErr
                  /\ errs[i] # SignalError("SIGKILL")
                  /\ ctxErr = "Canceled" => errs[i] = NilErr

\* Group.Run returned after the caller had cancelled and the children of a
\* watched and of an unwatched instance had been killed after the grace
\* period: only the error of the unwatched instance is in the aggregate.
C26_Witness ==
    \E i, j \in Inst :
        /\ gpc = "returned"
        /\ Watch[i] /\ forced[i] /\ errs[i] = NilErr
        /\ ~Watch[j] /\ forced[j] /\ errs[j] = SignalError("SIGKILL")
        /\ ret = <<errs[j]>>

(***************************************************************************)
(* Properties of the start of the workers and of the children              *)
(***************************************************************************)

\* The statement of C27 as written, in its last part: when Group.Run of a
\* group of unwatched instances has returned, every instance has started a
\* child.
C27_EveryUnwatchedStartsAChild ==
    (gpc = "returned" /\ \A i \in Inst : ~Watch[i]) =>
        \A i \in Inst : starts[i] = 1

\* C27 (amended): Group.Run starts one worker for every instance, in index
\* order, and does not wait for a worker in between: while it is in its
\* loop the next worker can be started whatever the other workers and
\* children do, and it waits only when all are started; a worker that is
\* about to start its child can do so, whatever the state of the other
\* instances, as long as the context is not done.  An unwatched instance
\* starts at most one child, and a returned one has started exactly one
\* unless its start failed (the executable could not be launched, or the
\* context was done before the start): a group of N unwatched instances
\* starts at most N children, and N when no start fails.
C27_WorkersStartIndependently ==
    /\ [](/\ spawned \in 0 .. NumInstances
          /\ \A i \in Inst : pc[i] # "idle" <=> i < spawned
          /\ gpc = "spawn" <=> spawned < NumInstances
          /\ gpc = "spawn" => ENABLED GroupSpawn
          /\ \A i \in Inst :
                (pc[i] = "start" /\ ctxErr = "") =>
                    ENABLED (Start(i) /\ child'[i] = "running")
          /\ \A i \in Inst :
                ~Watch[i] =>
                    /\ starts[i] <= 1
                    /\ pc[i] = "done" =>
                          (starts[i] = 1 <=> site[i] = "wait")
                    /\ (pc[i] = "done" /\ starts[i] = 0) =>
                          /\ site[i] = "start"
                          /\ result[i].kind = "start"
                          /\ result[i].wraps \in {"ENOENT", ctxErr})
    /\ [][\A i \in Inst :
             /\ pc'[i] = "idle" => pc[i] = "idle"
             /\ (pc[i] = "idle" /\ pc'[i] # "idle") =>
                    /\ i = spawned
                    /\ spawned' = spawned + 1
                    /\ pc'[i] = "start"]_vars

\* Every worker has been started and the first children of all instances
\* run at the same time.
C27_Witness ==
    /\ gpc = "wait"
    /\ spawned = NumInstances
    /\ \A i \in Inst : child[i] = "running" /\ starts[i] = 1

\* C28: under a done context no child is started.  An instance that reaches
\* cmd.Start on a done context (a watched instance that has left its restart
\* wait by the timer, or an instance whose worker had not started a child
\* yet) starts nothing and returns in that step the start-command error
\* wrapping the context's error; its slot is nil, and the context is left as
\* it is, when the context was cancelled, and holds that error when the
\* context ended by the caller's deadline.
C28_NoStartOnDoneContext ==
    [][\A i \in Inst :
          /\ ctxErr # "" => (~StartsChild(i) /\ starts'[i] = starts[i])
          /\ (pc[i] = "select" /\ pc'[i] = "start") =>
                 (child'[i] = "none" /\ starts'[i] = starts[i])
          /\ (pc[i] = "start" /\ ctxErr # "" /\ pc'[i] # "start") =>
                 /\ pc'[i] = "done"
                 /\ site'[i] = "start"
                 /\ child'[i] = "none"
                 /\ result'[i].kind = "start"
                 /\ result'[i].wraps = ctxErr
                 /\ result'[i] = StartError(CtxError(ctxErr))
                 /\ ctxErr' = ctxErr
                 /\ ctxErr = "Canceled" =>
                        (errs'[i] = NilErr /\ ctxCause' = ctxCause)
                 /\ ctxErr = "DeadlineExceeded" => errs'[i] = result'[i]]_vars

\* After the caller's cancellation a watched instance that had left its
\* restart wait, and an unwatched instance that had started no child, both
\* returned the start error wrapping context.Canceled; their slots are nil.
C28_Witness ==
    \E i, j \in Inst :
        /\ ctxErr = "Canceled"
        /\ Watch[i]
        /\ starts[i] >= 1
        /\ site[i] = "start"
        /\ result[i] = StartError(CtxError("Canceled"))
        /\ errs[i] = NilErr
        /\ ~Watch[j]
        /\ starts[j] = 0
        /\ site[j] = "start"
        /\ result[j] = StartError(CtxError("Canceled"))
        /\ errs[j] = NilErr

====
